---- MODULE Spec2Model ----
(***************************************************************************)
(* A model of the routing kernel of bast-routing-homework (src/src/lib.rs, *)
(* src/src/road_network.rs): the BastPriorityValue algebra, the graph      *)
(* builder's segment loop, the Dijkstra / A* loop of                       *)
(* DijkstrasAlgorithm::compute_shortest_path, the connected-component      *)
(* search and pruning, and the landmark (ALT) heuristic.                   *)
(*                                                                         *)
(* u32 costs are modelled as the integers 0 .. U32Modulus - 1: TLC's       *)
(* integers cannot hold 2^32, so the width is scaled down and kept as a    *)
(* width (a sum that does not fit is an overflow, exactly as in the code). *)
(* Rust's u32 `+` aborts on overflow when the crate is built with overflow *)
(* checks (the dev/test profile) and wraps when built without (release):   *)
(* overflow_checks is chosen once per behaviour.                           *)
(*                                                                         *)
(* HashMap / HashSet iteration order and the priority queue's order among  *)
(* equal priorities are not fixed by the code: they are nondeterministic   *)
(* choices here.                                                           *)
(***************************************************************************)
EXTENDS Integers, Sequences, FiniteSets, TLC

VARIABLES
    graph,                          \* DijkstrasAlgorithm.graph: [nodes, edges]
    visited_node_marks,             \* DijkstrasAlgorithm.visited_node_marks
    number_of_completed_rounds,     \* DijkstrasAlgorithm.number_of_completed_rounds
    heuristic,                      \* DijkstrasAlgorithm.heuristic: <<>> is None, <<table>> is Some(table)
    overflow_checks,                \* the build: TRUE aborts on u32 overflow, FALSE wraps
    pc,                             \* where the program is
    caller,                         \* who called the running compute_shortest_path
    source,                         \* compute_shortest_path's argument
    target,                         \* compute_shortest_path's argument
    pq,                             \* compute_shortest_path's local pq: item -> priority
    distances,                      \* compute_shortest_path's local distances
    landmarks,                      \* precompute_landmark_distances: landmarks not yet searched
    distances_from_each_landmark,   \* precompute_landmark_distances: the tables so far
    saved,                          \* the caller's engine while precompute's private engine dijk runs
    landmark_database,              \* <<>> before precompute_landmark_distances returned, then <<tables>>
    h_target,                       \* the target the attached heuristic table was derived for
    find_caller,                    \* who called the running find_largest_connected_component
    largest_connected_component,    \* what find_largest_connected_component returned last
    history,                        \* the finished top-level calls and what they returned
    ops,                            \* number of top-level calls started
    osm_ways,                       \* read_from_osm_file: the ways of the file not yet read
    ways,                           \* read_from_osm_file: the retained ways not yet walked
    nodes_hashmap,                  \* read_from_osm_file: node id -> position
    way_i,                          \* read_from_osm_file: index i into the way being walked
    previous_head                   \* read_from_osm_file: the cached head (index, position)

vars == <<graph, visited_node_marks, number_of_completed_rounds, heuristic,
          overflow_checks, pc, caller, source, target, pq, distances,
          landmarks, distances_from_each_landmark, saved, landmark_database,
          h_target, find_caller, largest_connected_component, history, ops,
          osm_ways, ways, nodes_hashmap, way_i, previous_head>>

engine_vars == <<graph, visited_node_marks, number_of_completed_rounds, heuristic>>
search_vars == <<source, target, pq, distances>>
landmark_vars == <<landmarks, distances_from_each_landmark, saved, landmark_database>>
find_vars == <<find_caller, largest_connected_component>>
build_vars == <<osm_ways, ways, nodes_hashmap, way_i, previous_head>>

(***************************************************************************)
(* Bounds of the model.                                                    *)
(***************************************************************************)
MaxNodes == 3          \* node ids of the enumerated graphs are 1 .. MaxNodes
MaxCost == 1           \* their small edge costs are 0 .. MaxCost
U32Modulus == 1024     \* the scaled-down number of u32 values
MaxLandmarks == 2      \* number_of_landmarks is 0 .. MaxLandmarks
MaxBuildNodes == 2     \* the node ids of the OSM input are 1 .. MaxBuildNodes
MaxWays == 2           \* the OSM input has at most MaxWays ways
MaxWayLen == 3         \* a way of the input references at most MaxWayLen nodes
MaxCalls == 3          \* prunes and searches made on the graph that was read

NoTarget == -1         \* "-1 as target id tries to settle all nodes"

U32Max == U32Modulus - 1
Ids == 1 .. MaxNodes
CostSet == 0 .. MaxCost

(***************************************************************************)
(* Maps (HashMap): functions; insert extends the domain, remove shrinks it *)
(***************************************************************************)
EmptyMap == [x \in {} |-> 0]

insert(m, k, v) == [x \in (DOMAIN m) \cup {k} |-> IF x = k THEN v ELSE m[x]]

remove_all(m, ks) == [x \in (DOMAIN m) \ ks |-> m[x]]

(***************************************************************************)
(* BastPriorityValue: Infinity is <<>>, Some(n) is <<n>>.                  *)
(***************************************************************************)
Infinity == <<>>

Some(n) == <<n>>

IsSome(x) == Len(x) = 1

\* impl Ord for BastPriorityValue: cmp
cmp(a, b) ==
    CASE ~IsSome(a) /\ ~IsSome(b) -> "Equal"
      [] ~IsSome(a) /\ IsSome(b) -> "Greater"
      [] IsSome(a) /\ ~IsSome(b) -> "Less"
      [] OTHER -> IF a[1] < b[1] THEN "Less"
                  ELSE IF a[1] = b[1] THEN "Equal" ELSE "Greater"

\* the derived `<` of PartialOrd (partial_cmp is Some(cmp))
lt(a, b) == cmp(a, b) = "Less"

\* u32 `a + b` when it does not abort: the sum in the u32 range
u32_add(a, b) == (a + b) % U32Modulus

\* u32 `a + b` overflows
u32_overflows(a, b) == a + b >= U32Modulus

\* impl Add for BastPriorityValue: the value when the addition does not abort
add(a, b) ==
    IF ~IsSome(a) THEN Infinity
    ELSE IF ~IsSome(b) THEN Infinity
    ELSE Some(u32_add(a[1], b[1]))

\* impl Add for BastPriorityValue: the u32 addition inside it overflows
add_overflows(a, b) == IsSome(a) /\ IsSome(b) /\ u32_overflows(a[1], b[1])

\* u32::abs_diff
abs_diff(a, b) == IF a >= b THEN a - b ELSE b - a

\* HashMap::get with the Infinity default of lines 300-303 and 308-311
get_or_infinity(m, k) == IF k \in DOMAIN m THEN m[k] ELSE Infinity

(***************************************************************************)
(* Graphs (RoadNetwork).  edges is keyed by the nodes that have at least   *)
(* one neighbour; edges[u] is keyed by u's neighbours.                     *)
(***************************************************************************)
\* the RoadNetwork whose undirected edges are w: a function from
\* two-element (or, for a self-loop, one-element) sets of ids to costs
graph_of(w) ==
    LET keys == UNION (DOMAIN w)
    IN [nodes |-> keys,
        edges |-> [u \in keys |->
                     [v \in {x \in keys : {u, x} \in DOMAIN w} |-> w[{u, v}]]]]

Pairs == {{u, v} : u, v \in Ids} \ {{u} : u \in Ids}

\* every undirected graph without self-loops on the ids 1 .. MaxNodes with
\* costs from C
graphs_with(C) == {graph_of(w) : w \in UNION {[P -> C] : P \in SUBSET Pairs}}

\* the enumerated graphs: path costs stay far below the u32 range
Graphs == graphs_with(CostSet)

\* graphs with an edge cost of u32::MAX beside the small ones
OverflowGraphs == graphs_with(CostSet \cup {U32Max}) \ Graphs

\* the graphs of the specification's scenarios; A .. F are 1 .. 6
\* G1: A-B=3, B-C=4, C-D=2, A-D=10
G1 == graph_of(({1, 2} :> 3) @@ ({2, 3} :> 4) @@ ({3, 4} :> 2) @@ ({1, 4} :> 10))

\* G2: two disjoint triangles, every edge 1 (X, Y, Z are 4, 5, 6)
G2 == graph_of(({1, 2} :> 1) @@ ({2, 3} :> 1) @@ ({1, 3} :> 1)
               @@ ({4, 5} :> 1) @@ ({5, 6} :> 1) @@ ({4, 6} :> 1))

\* G3: the chain A-B=1, B-C=1, C-D=1, D-E=1
G3 == graph_of(({1, 2} :> 1) @@ ({2, 3} :> 1) @@ ({3, 4} :> 1) @@ ({4, 5} :> 1))

\* G4: G3 and the spur B-F=100
G4 == graph_of(({1, 2} :> 1) @@ ({2, 3} :> 1) @@ ({3, 4} :> 1) @@ ({4, 5} :> 1)
               @@ ({2, 6} :> 100))

Scenarios == {G1, G2, G3, G4}

\* components of unequal size: the chain G3 and a separate edge
Lopsided == graph_of(({1, 2} :> 1) @@ ({2, 3} :> 1) @@ ({3, 4} :> 1) @@ ({4, 5} :> 1)
                     @@ ({6, 7} :> 1))

\* a component of three of the five nodes: the chain A-B-C and a separate edge
ThreeAndTwo == graph_of(({1, 2} :> 1) @@ ({2, 3} :> 1) @@ ({4, 5} :> 1))

\* a component that is one node with a self-loop, beside an edge
Looped == graph_of(({1, 2} :> 1) @@ ({3} :> 1))

\* RoadNetwork::new
new_road_network == [nodes |-> {}, edges |-> EmptyMap]

\* the test's initial_visited_node_marks (lines 528-536, 574-582)
initial_visited_node_marks(g) == [n \in g.nodes |-> 0]

(***************************************************************************)
(* compute_shortest_path (lines 240-360).                                  *)
(***************************************************************************)
\* every order in which a `for` over a HashMap with the keys S can run
orders(S) ==
    {f \in [1 .. Cardinality(S) -> S] :
        \A i, j \in 1 .. Cardinality(S) : i # j => f[i] # f[j]}

\* lines 261-273: the distance the source starts with
initial_distance(s) ==
    IF heuristic = <<>> THEN Some(0)
    ELSE IF s \in DOMAIN heuristic[1] THEN heuristic[1][s]
    ELSE Some(0)

\* lines 245-284: the call up to the main loop, made by `who`
begin_search(s, t, who) ==
    /\ number_of_completed_rounds' = number_of_completed_rounds + 1
    /\ visited_node_marks' =
           insert(visited_node_marks, s, number_of_completed_rounds + 1)
    /\ distances' = insert(EmptyMap, s, initial_distance(s))
    /\ pq' = insert(EmptyMap, s, Some(0))
    /\ source' = s
    /\ target' = t
    /\ caller' = who
    /\ pc' = "loop"
    /\ UNCHANGED <<graph, heuristic>>

\* lines 323-330: the priority v is pushed with
new_queue_value(alt, v) ==
    IF heuristic = <<>> THEN alt
    ELSE IF v \in DOMAIN heuristic[1] THEN add(alt, heuristic[1][v])
    ELSE alt

\* lines 323-330: that addition overflows
new_queue_value_overflows(alt, v) ==
    /\ heuristic # <<>>
    /\ v \in DOMAIN heuristic[1]
    /\ add_overflows(alt, heuristic[1][v])

\* a guard that lets only a node that already has a distance get a new one
improves_known_only(alt, dist_v) == IsSome(dist_v) /\ lt(alt, dist_v)

\* line 313: the guard of the relaxation
improves(alt, dist_v) == lt(alt, dist_v)

\* lines 296-334: the body of the loop over u's neighbours, for the
\* neighbour v with edge cost w; st is [distances, pq, panicked]
relax(st, u, v, w) ==
    IF st.panicked THEN st
    ELSE
      LET u_dist == get_or_infinity(st.distances, u)
          alt == add(u_dist, Some(w))
          dist_v == get_or_infinity(st.distances, v)
      IN IF overflow_checks /\ add_overflows(u_dist, Some(w))
         THEN [st EXCEPT !.panicked = TRUE]
         ELSE IF improves(alt, dist_v)
         THEN IF overflow_checks /\ new_queue_value_overflows(alt, v)
              THEN [st EXCEPT !.panicked = TRUE]
              ELSE [distances |-> insert(st.distances, v, alt),
                    pq |-> insert(st.pq, v, new_queue_value(alt, v)),
                    panicked |-> FALSE]
         ELSE st

\* lines 296-334: the loop over u's neighbours in the order `order`
RECURSIVE relax_all(_, _, _, _)
relax_all(st, u, neighbours, order) ==
    IF order = <<>> THEN st
    ELSE relax_all(relax(st, u, Head(order), neighbours[Head(order)]),
                   u, neighbours, Tail(order))

\* pop_min may return u: no item has a smaller priority
is_min(u) == \A x \in DOMAIN pq : cmp(pq[u], pq[x]) # "Greater"

\* lines 287-337: one turn of the main loop
PopMin ==
    /\ pc = "loop"
    /\ DOMAIN pq # {}
    /\ \E u \in DOMAIN pq :
         /\ is_min(u)
         /\ LET neighbours == IF u \in DOMAIN graph.edges
                              THEN graph.edges[u] ELSE EmptyMap
            IN \E order \in orders(DOMAIN neighbours) :
                 LET st == relax_all([distances |-> distances,
                                      pq |-> remove_all(pq, {u}),
                                      panicked |-> FALSE],
                                     u, neighbours, order)
                 IN IF st.panicked
                    THEN /\ pc' = "panicked"
                         /\ UNCHANGED <<pq, distances>>
                    ELSE /\ pc' = "loop"
                         /\ pq' = st.pq
                         /\ distances' = st.distances
    /\ UNCHANGED <<engine_vars, overflow_checks, caller, source, target,
                   landmark_vars, h_target, find_vars,
                   history, ops, build_vars>>

\* labels that a later round does not replace: only a node whose label is 0
\* (or that has none) gets this round's label
marks_of_first_round ==
    [n \in (DOMAIN visited_node_marks) \cup
           {d \in DOMAIN distances : IsSome(distances[d])} |->
        IF n \in DOMAIN visited_node_marks /\ visited_node_marks[n] # 0
        THEN visited_node_marks[n]
        ELSE IF n \in DOMAIN distances /\ IsSome(distances[n])
        THEN number_of_completed_rounds
        ELSE visited_node_marks[n]]

\* lines 341-350: every node with a finite distance gets this round's label
marks_after_search ==
    [n \in (DOMAIN visited_node_marks) \cup
           {d \in DOMAIN distances : IsSome(distances[d])} |->
        IF n \in DOMAIN distances /\ IsSome(distances[n])
        THEN number_of_completed_rounds
        ELSE visited_node_marks[n]]

\* lines 352-359: the returned pair
returned == [cost |-> get_or_infinity(distances, target), dist_map |-> distances]

\* the main loop ended (line 287)
loop_ended == pc = "loop" /\ DOMAIN pq = {}

\* a query of the caller of the engine: routing.compute_shortest_path(s, t)
Query(s, t) ==
    /\ pc = "idle"
    /\ begin_search(s, t, "query")
    /\ ops' = ops + 1
    /\ UNCHANGED <<overflow_checks, landmark_vars, h_target, find_vars,
                   history, build_vars>>

\* lines 341-359 of a query: the labels, then the result goes to the caller
ReturnToQuery ==
    /\ loop_ended
    /\ caller = "query"
    /\ visited_node_marks' = marks_after_search
    /\ history' = Append(history,
                         [op |-> "query", source |-> source, target |-> target,
                          heuristic |-> heuristic, h_target |-> h_target,
                          cost |-> returned.cost, dist_map |-> returned.dist_map])
    /\ pc' = "idle"
    /\ UNCHANGED <<graph, number_of_completed_rounds, heuristic, overflow_checks,
                   caller, search_vars, landmark_vars, h_target,
                   find_vars, ops, build_vars>>

(***************************************************************************)
(* find_largest_connected_component (lines 187-237) and                    *)
(* reduce_to_largest_connected_component (lines 168-185).                  *)
(***************************************************************************)
\* lines 208, 217-222: how many nodes carry the label r in marks
nodes_marked(marks, r) == Cardinality({n \in DOMAIN marks : marks[n] = r})

\* line 208: the early exit of the loop, with the labels marks
majority_found(marks) ==
    nodes_marked(marks, number_of_completed_rounds)
        > (Cardinality(graph.nodes) \div 2) + 1

\* lines 188-191: the loop condition
unmarked == {n \in DOMAIN visited_node_marks : visited_node_marks[n] = 0}

\* the ranking without the reverse() of line 229: a round with the smallest
\* node count comes first
least_rounds ==
    LET rounds == {visited_node_marks[n] : n \in DOMAIN visited_node_marks}
    IN {r \in rounds : \A q \in rounds :
            nodes_marked(visited_node_marks, r) <= nodes_marked(visited_node_marks, q)}

\* lines 215-236: the rounds sorted_round_order[0] can be: sort_by_key is
\* stable and the HashMap's order is not fixed, so any round with the largest
\* node count can come first after the reverse
dominant_rounds ==
    LET rounds == {visited_node_marks[n] : n \in DOMAIN visited_node_marks}
    IN {r \in rounds : \A q \in rounds :
            nodes_marked(visited_node_marks, r) >= nodes_marked(visited_node_marks, q)}

\* a prune that forgets line 179: the other components leave `edges` only
without_other_edges(r) ==
    LET gone == {n \in DOMAIN visited_node_marks : visited_node_marks[n] # r}
    IN [nodes |-> graph.nodes,
        edges |-> remove_all(graph.edges, gone)]

\* lines 177-184: the graph without the nodes whose label is not r
without_other_components(r) ==
    LET gone == {n \in DOMAIN visited_node_marks : visited_node_marks[n] # r}
    IN [nodes |-> graph.nodes \ gone,
        edges |-> remove_all(graph.edges, gone)]

\* routing.reduce_to_largest_connected_component() is called (line 170)
Reduce ==
    /\ pc = "idle"
    /\ pc' = "find_loop"
    /\ find_caller' = "reduce"
    /\ ops' = ops + 1
    /\ UNCHANGED <<engine_vars, overflow_checks, caller, search_vars,
                   landmark_vars, h_target, largest_connected_component,
                   history, build_vars>>

\* lines 188-205: a node with label 0 is left: search from one
FindNext ==
    /\ pc = "find_loop"
    /\ \E pick_source_id \in unmarked :
         begin_search(pick_source_id, NoTarget, "find")
    /\ UNCHANGED <<overflow_checks, landmark_vars, h_target, find_vars,
                   history, ops, build_vars>>

\* lines 341-359 of a search of the loop, then lines 208-210
ReturnToFind ==
    /\ loop_ended
    /\ caller = "find"
    /\ visited_node_marks' = marks_after_search
    /\ pc' = IF majority_found(marks_after_search) THEN "find_rank" ELSE "find_loop"
    /\ UNCHANGED <<graph, number_of_completed_rounds, heuristic, overflow_checks,
                   caller, search_vars, landmark_vars, h_target, find_vars,
                   history, ops, build_vars>>

\* the loop of lines 188-211 is over
find_loop_ended == pc = "find_rank" \/ (pc = "find_loop" /\ unmarked = {})

\* lines 213-236 for reduce, then lines 177-184; sorted_round_order[0]
\* aborts when there is no label at all
ReduceFinish ==
    /\ find_loop_ended
    /\ find_caller = "reduce"
    /\ IF DOMAIN visited_node_marks = {}
       THEN /\ pc' = "panicked"
            /\ UNCHANGED <<graph, largest_connected_component, history>>
       ELSE \E r \in dominant_rounds :
              /\ largest_connected_component' = r
              /\ graph' = without_other_components(r)
              /\ history' = Append(history,
                                   [op |-> "reduce", before |-> graph,
                                    graph |-> without_other_components(r)])
              /\ pc' = "idle"
    /\ UNCHANGED <<visited_node_marks, number_of_completed_rounds, heuristic,
                   overflow_checks, caller, search_vars, landmark_vars,
                   h_target, find_caller, ops, build_vars>>

(***************************************************************************)
(* precompute_landmark_distances (lines 29-60).                            *)
(***************************************************************************)
\* lines 34-39: what graph.nodes.iter().take(k) can yield
landmark_choices(k) ==
    {L \in SUBSET graph.nodes :
        Cardinality(L) = IF k < Cardinality(graph.nodes)
                         THEN k ELSE Cardinality(graph.nodes)}

\* lines 34-49: the landmarks are taken and the private engine dijk is made;
\* the caller's engine waits in `saved`
PrecomputeStart(number_of_landmarks) ==
    /\ pc = "idle"
    /\ \E L \in landmark_choices(number_of_landmarks) : landmarks' = L
    /\ distances_from_each_landmark' = EmptyMap
    /\ saved' = [visited_node_marks |-> visited_node_marks,
                 number_of_completed_rounds |-> number_of_completed_rounds,
                 heuristic |-> heuristic]
    /\ visited_node_marks' = EmptyMap
    /\ number_of_completed_rounds' = 0
    /\ heuristic' = <<>>
    /\ pc' = "landmark_loop"
    /\ ops' = ops + 1
    /\ UNCHANGED <<graph, overflow_checks, caller, search_vars,
                   landmark_database, h_target, find_vars, history, build_vars>>

\* lines 51-54: the next landmark's search starts
LandmarkNext ==
    /\ pc = "landmark_loop"
    /\ \E landmark \in landmarks :
         /\ landmarks' = landmarks \ {landmark}
         /\ begin_search(landmark, NoTarget, "landmark")
    /\ UNCHANGED <<overflow_checks, distances_from_each_landmark, saved,
                   landmark_database, h_target, find_vars, history, ops,
                   build_vars>>

\* lines 341-359 of a landmark's search, then line 56
ReturnToLandmark ==
    /\ loop_ended
    /\ caller = "landmark"
    /\ visited_node_marks' = marks_after_search
    /\ distances_from_each_landmark' =
           insert(distances_from_each_landmark, source, returned.dist_map)
    /\ pc' = "landmark_loop"
    /\ UNCHANGED <<graph, number_of_completed_rounds, heuristic, overflow_checks,
                   caller, search_vars, landmarks, saved, landmark_database,
                   h_target, find_vars, history, ops, build_vars>>

\* line 59: the tables are returned, dijk is dropped
PrecomputeReturn ==
    /\ pc = "landmark_loop"
    /\ landmarks = {}
    /\ landmark_database' = <<distances_from_each_landmark>>
    /\ visited_node_marks' = saved.visited_node_marks
    /\ number_of_completed_rounds' = saved.number_of_completed_rounds
    /\ heuristic' = saved.heuristic
    /\ pc' = "idle"
    /\ UNCHANGED <<graph, overflow_checks, caller, search_vars, landmarks,
                   distances_from_each_landmark, saved, h_target, find_vars,
                   history, ops, build_vars>>

(***************************************************************************)
(* transform_landmark_db_into_heuristic (lines 62-85).                     *)
(***************************************************************************)
\* a term that subtracts with the wrapping u32 `-` where line 79 takes abs_diff
landmark_term_wrapping_sub(distance_lu, distance_tu) ==
    IF IsSome(distance_lu) /\ IsSome(distance_tu)
    THEN Some((distance_lu[1] - distance_tu[1]) % U32Modulus)
    ELSE Some(0)

\* a term that adds the two distances where line 79 takes their difference
landmark_term_sum(distance_lu, distance_tu) ==
    IF IsSome(distance_lu) /\ IsSome(distance_tu)
    THEN Some(u32_add(distance_lu[1], distance_tu[1]))
    ELSE Some(0)

\* lines 78-81: what one landmark contributes for one node
landmark_term(distance_lu, distance_tu) ==
    IF IsSome(distance_lu) /\ IsSome(distance_tu)
    THEN Some(abs_diff(distance_lu[1], distance_tu[1]))
    ELSE Some(0)

\* Iterator::max over a non-empty set of values, by cmp (line 82)
max_by_cmp(S) == CHOOSE x \in S : \A y \in S : cmp(x, y) # "Less"

\* lines 74, 76, 82: an unwrap() of the derivation fails: a table without
\* the node or without the target, or no table at all
transform_panics(road_network, db, t) ==
    /\ road_network.nodes # {}
    /\ \/ DOMAIN db = {}
       \/ \E l \in DOMAIN db :
            \/ t \notin DOMAIN db[l]
            \/ \E u \in road_network.nodes : u \notin DOMAIN db[l]

\* lines 68-84: the table, when no unwrap() fails
transform_landmark_db_into_heuristic(road_network, db, t) ==
    [u \in road_network.nodes |->
        max_by_cmp({landmark_term(db[l][u], db[l][t]) : l \in DOMAIN db})]

\* the caller derives the table for t and attaches it with change_heuristic
\* (lines 612-616, 363-365)
Transform(t) ==
    /\ pc = "idle"
    /\ landmark_database # <<>>
    /\ h_target' = t
    /\ IF transform_panics(graph, landmark_database[1], t)
       THEN /\ pc' = "panicked"
            /\ UNCHANGED heuristic
       ELSE /\ heuristic' = <<transform_landmark_db_into_heuristic(
                                  graph, landmark_database[1], t)>>
            /\ pc' = "idle"
    /\ history' = Append(history, [op |-> "transform", target |-> t])
    /\ ops' = ops + 1
    /\ UNCHANGED <<graph, visited_node_marks, number_of_completed_rounds,
                   overflow_checks, caller, search_vars, landmark_vars,
                   find_vars, build_vars>>

(***************************************************************************)
(* The engine as the tests construct it (lines 543-548, 584-589).          *)
(***************************************************************************)
engine_on(g) ==
    /\ graph = g
    /\ visited_node_marks = initial_visited_node_marks(g)
    /\ number_of_completed_rounds = 0
    /\ heuristic = <<>>
    /\ overflow_checks \in BOOLEAN
    /\ pc = "idle"
    /\ caller = "none"
    /\ source = NoTarget
    /\ target = NoTarget
    /\ pq = EmptyMap
    /\ distances = EmptyMap
    /\ landmarks = {}
    /\ distances_from_each_landmark = EmptyMap
    /\ saved = <<>>
    /\ landmark_database = <<>>
    /\ h_target = NoTarget
    /\ find_caller = "none"
    /\ largest_connected_component = 0
    /\ history = <<>>
    /\ ops = 0
    /\ osm_ways = <<>>
    /\ ways = <<>>
    /\ nodes_hashmap = EmptyMap
    /\ way_i = 0
    /\ previous_head = <<>>

\* the targets asked for: the nodes, ids that are no node, and -1
Targets == graph.nodes \cup Ids \cup {NoTarget}

(***************************************************************************)
(* Spec: the landmark pipeline of the test bast_baden_wuerttemberg on      *)
(* every enumerated graph and every scenario graph: the tables, a query    *)
(* without heuristic, the heuristic for some target, the same query again. *)
(***************************************************************************)
Init == \E g \in Graphs \cup Scenarios : engine_on(g)

Next ==
    \/ ops = 0 /\ \E k \in 0 .. MaxLandmarks : PrecomputeStart(k)
    \/ LandmarkNext
    \/ ReturnToLandmark
    \/ PrecomputeReturn
    \/ ops = 1 /\ \E s \in graph.nodes, t \in Targets : Query(s, t)
    \/ PopMin
    \/ ReturnToQuery
    \/ ops = 2 /\ \E t \in Targets : Transform(t)
    \/ ops = 3 /\ Query(source, target)

Spec == Init /\ [][Next]_vars

(***************************************************************************)
(* SpecOverflow: the tables, a query and the heuristic on graphs with an   *)
(* edge cost of u32::MAX, where the sums of the search leave the range.    *)
(***************************************************************************)
InitOverflow == \E g \in OverflowGraphs : engine_on(g)

NextOverflow ==
    \/ ops = 0 /\ \E k \in 0 .. MaxLandmarks : PrecomputeStart(k)
    \/ LandmarkNext
    \/ ReturnToLandmark
    \/ PrecomputeReturn
    \/ ops = 1 /\ \E s \in graph.nodes, t \in Targets : Query(s, t)
    \/ PopMin
    \/ ReturnToQuery
    \/ ops = 2 /\ \E t \in Targets : Transform(t)

SpecOverflow == InitOverflow /\ [][NextOverflow]_vars

(***************************************************************************)
(* SpecPrune: a fresh engine is pruned, perhaps twice, and then asked for  *)
(* all distances from one of the nodes that are left.                      *)
(***************************************************************************)
InitPrune ==
    \E g \in Graphs \cup Scenarios \cup {Lopsided, ThreeAndTwo, Looped} \cup OverflowGraphs :
        engine_on(g)

NextPrune ==
    \/ ops <= 1 /\ history = SelectSeq(history, LAMBDA e : e.op = "reduce") /\ Reduce
    \/ FindNext
    \/ ReturnToFind
    \/ ReduceFinish
    \/ ops >= 1 /\ history = SelectSeq(history, LAMBDA e : e.op = "reduce")
       /\ \E n \in graph.nodes : Query(n, NoTarget)
    \/ PopMin
    \/ ReturnToQuery

SpecPrune == InitPrune /\ [][NextPrune]_vars

(***************************************************************************)
(* SpecTables: the landmark tables and the heuristic derived from them, on *)
(* every enumerated graph, every scenario graph and every graph with an    *)
(* edge cost of u32::MAX.                                                  *)
(***************************************************************************)
InitTables ==
    \E g \in Graphs \cup Scenarios \cup {Lopsided, Looped} \cup OverflowGraphs :
        engine_on(g)

NextTables ==
    \/ ops = 0 /\ \E k \in 0 .. MaxLandmarks : PrecomputeStart(k)
    \/ LandmarkNext
    \/ PopMin
    \/ ReturnToLandmark
    \/ PrecomputeReturn
    \/ ops = 1 /\ \E t \in Targets : Transform(t)

SpecTables == InitTables /\ [][NextTables]_vars

(***************************************************************************)
(* SpecTermination: the landmark pipeline with a main loop that is never   *)
(* left half way: compute_shortest_path is sequential code, so a turn of   *)
(* its loop that can be taken is taken (weak fairness of PopMin).  The     *)
(* graphs are the chains 1-2-3 with costs of 0 and 1, a triangle of edges  *)
(* of cost 0, and the chain with the costs u32::MAX and 1.                 *)
(***************************************************************************)
TerminationGraphs ==
    {graph_of(({1, 2} :> a) @@ ({2, 3} :> b)) : a, b \in CostSet}
    \cup {graph_of(({1, 2} :> 0) @@ ({2, 3} :> 0) @@ ({1, 3} :> 0)),
          graph_of(({1, 2} :> U32Max) @@ ({2, 3} :> 1))}

InitTermination == \E g \in TerminationGraphs : engine_on(g)

NextTermination ==
    \/ ops = 0 /\ \E k \in 0 .. MaxLandmarks : PrecomputeStart(k)
    \/ LandmarkNext
    \/ ReturnToLandmark
    \/ PrecomputeReturn
    \/ ops = 1 /\ \E t \in Targets : Transform(t)
    \/ ops \in {1, 2} /\ \E s \in graph.nodes : Query(s, NoTarget)
    \/ PopMin
    \/ ReturnToQuery

SpecTermination ==
    InitTermination /\ [][NextTermination]_vars /\ WF_vars(PopMin)

(***************************************************************************)
(* RoadNetwork::read_from_osm_file (lines 369-500) and speed_from_way_kmh  *)
(* (road_network.rs lines 19-47).  A Location is a point of a line, in     *)
(* metres, and haversine_distance_to the distance on that line.  A way of  *)
(* the file is [nodes, highway]: highway is <<>> when the way has no       *)
(* highway tag and <<value>> when it has one.                              *)
(***************************************************************************)
\* road_network.rs lines 26-46: <<>> is None, <<kmh>> is Some(kmh)
speed_from_way_kmh(way) ==
    IF way.highway = <<>> THEN <<>>
    ELSE LET h == way.highway[1]
         IN CASE h \in {"motorway", "trunk"} -> <<110>>
              [] h = "primary" -> <<70>>
              [] h = "secondary" -> <<60>>
              [] h \in {"tertiary", "motorway_link", "trunk_link",
                        "primary_link", "secondary_link"} -> <<50>>
              [] h \in {"road", "unclassified"} -> <<40>>
              [] h \in {"residential", "unsurfaced"} -> <<30>>
              [] h = "living_street" -> <<10>>
              [] h = "service" -> <<5>>
              [] OTHER -> <<>>

\* line 450: the collaborator's distance between two Locations, in metres
haversine_distance_to(a, b) == abs_diff(a, b)

\* lines 452-454: the cost of a segment.  highway_speed_m_per_s is kept as
\* 18 times its value (line 400: kmh * 5 / 18), line 453 multiplies it by
\* 5 / 18 again; `as u32` rounds down and saturates
segment_cost(distance_metres, speed_x18) ==
    LET cost == (distance_metres * 324) \div (speed_x18 * 5)
    IN IF cost > U32Max THEN U32Max ELSE cost

\* edges.entry(a).or_insert(..) without the and_modify(..): a node that has a
\* neighbour already gets no other
with_edge_for_new_node(edges, a, b, cost) ==
    IF a \in DOMAIN edges THEN edges
    ELSE insert(edges, a, insert(EmptyMap, b, cost))

\* lines 459-469 and 471-481: edges.entry(a).and_modify(..).or_insert(..)
with_edge(edges, a, b, cost) ==
    insert(edges, a,
           IF a \in DOMAIN edges THEN insert(edges[a], b, cost)
           ELSE insert(EmptyMap, b, cost))

\* lines 376-377: the file is opened; File::open(..).unwrap() aborts when the
\* file cannot be opened
OpenFile ==
    /\ pc = "open"
    /\ \E ok \in BOOLEAN :
         /\ history' = Append(history, [op |-> "open", ok |-> ok])
         /\ pc' = IF ok THEN "read" ELSE "panicked"
    /\ UNCHANGED <<engine_vars, overflow_checks, caller, search_vars,
                   landmark_vars, h_target, find_vars, ops, build_vars>>

\* line 389: the reader yields an Err for the next object of the file;
\* map(Result::unwrap) aborts
ReadFails ==
    /\ pc = "read"
    /\ history' = Append(history, [op |-> "read", ok |-> FALSE])
    /\ pc' = "panicked"
    /\ UNCHANGED <<engine_vars, overflow_checks, caller, search_vars,
                   landmark_vars, h_target, find_vars, ops, build_vars>>

\* lines 396-416: the next way of the file is read; it is kept when its
\* highway value has a speed and it references two nodes or more
ReadWay ==
    /\ pc = "read"
    /\ osm_ways # <<>>
    /\ LET way == Head(osm_ways)
           speed == speed_from_way_kmh(way)
       IN ways' = IF speed # <<>> /\ Len(way.nodes) >= 2
                  THEN Append(ways, [node_sequence |-> way.nodes,
                                     highway_speed_m_per_s_x18 |-> speed[1] * 5])
                  ELSE ways
    /\ osm_ways' = Tail(osm_ways)
    /\ UNCHANGED <<engine_vars, overflow_checks, pc, caller, search_vars,
                   landmark_vars, h_target, find_vars, history, ops,
                   nodes_hashmap, way_i, previous_head>>

\* line 389: the file is read to its end; the walk of line 427 starts
StartWalk ==
    /\ pc = "read"
    /\ osm_ways = <<>>
    /\ pc' = "walk"
    /\ way_i' = 0
    /\ previous_head' = <<>>
    /\ UNCHANGED <<engine_vars, overflow_checks, caller, search_vars,
                   landmark_vars, h_target, find_vars, history, ops,
                   osm_ways, ways, nodes_hashmap>>

\* lines 432-441: the tail's Location: the cached head of the segment before,
\* or the lookup; <<>> is None
tail_location(way, i) ==
    IF previous_head # <<>> /\ previous_head[1].index = i
    THEN <<previous_head[1].location>>
    ELSE IF way.node_sequence[i + 1] \in DOMAIN nodes_hashmap
    THEN <<nodes_hashmap[way.node_sequence[i + 1]]>>
    ELSE <<>>

\* line 446: the head's Location; <<>> is None
head_location(way, i) ==
    IF way.node_sequence[i + 2] \in DOMAIN nodes_hashmap
    THEN <<nodes_hashmap[way.node_sequence[i + 2]]>>
    ELSE <<>>

\* lines 431-488: the segment i (0-based, as in the code) of the first of the
\* ways left; after a way's last segment the next way starts (lines 427-429)
WalkSegment ==
    /\ pc = "walk"
    /\ ways # <<>>
    /\ LET way == Head(ways)
           i == way_i
           tail == tail_location(way, i)
           head == head_location(way, i)
           tail_id == way.node_sequence[i + 1]
           head_id == way.node_sequence[i + 2]
           last == i + 1 = Len(way.node_sequence) - 1
       IN /\ IF tail # <<>> /\ head # <<>>
             THEN LET cost == segment_cost(haversine_distance_to(tail[1], head[1]),
                                           way.highway_speed_m_per_s_x18)
                  IN /\ graph' = [graph EXCEPT !.edges =
                                     with_edge(with_edge(graph.edges, tail_id, head_id, cost),
                                               head_id, tail_id, cost)]
                     /\ previous_head' = IF last THEN <<>>
                                         ELSE <<[index |-> i + 1, location |-> head[1]]>>
             ELSE /\ graph' = graph
                  /\ previous_head' = IF last THEN <<>> ELSE previous_head
          /\ way_i' = IF last THEN 0 ELSE i + 1
          /\ ways' = IF last THEN Tail(ways) ELSE ways
    /\ UNCHANGED <<visited_node_marks, number_of_completed_rounds, heuristic,
                   overflow_checks, pc, caller, search_vars, landmark_vars,
                   h_target, find_vars, history, ops, osm_ways, nodes_hashmap>>

\* lines 491-499: nodes becomes the key set of edges, the graph is returned
FinishBuild ==
    /\ pc = "walk"
    /\ ways = <<>>
    /\ graph' = [graph EXCEPT !.nodes = DOMAIN graph.edges]
    /\ pc' = "built"
    /\ UNCHANGED <<visited_node_marks, number_of_completed_rounds, heuristic,
                   overflow_checks, caller, search_vars, landmark_vars,
                   h_target, find_vars, history, ops, build_vars>>

(***************************************************************************)
(* SpecBuild: read_from_osm_file on every input of at most MaxWays ways.   *)
(***************************************************************************)
BuildIds == 1 .. MaxBuildNodes

\* the Locations of the input: two points 50 m apart
Locations == {0, 50}

\* the highway tags of the input: three of the table, one that is not in
\* it, and no tag
Highways == {<<"service">>, <<"motorway">>, <<"footway">>, <<>>}

OsmWays ==
    [nodes : UNION {[1 .. n -> BuildIds] : n \in 0 .. MaxWayLen},
     highway : Highways]

InitBuild ==
    /\ graph = new_road_network
    /\ visited_node_marks = EmptyMap
    /\ number_of_completed_rounds = 0
    /\ heuristic = <<>>
    /\ overflow_checks \in BOOLEAN
    /\ pc = "open"
    /\ caller = "none"
    /\ source = NoTarget
    /\ target = NoTarget
    /\ pq = EmptyMap
    /\ distances = EmptyMap
    /\ landmarks = {}
    /\ distances_from_each_landmark = EmptyMap
    /\ saved = <<>>
    /\ landmark_database = <<>>
    /\ h_target = NoTarget
    /\ find_caller = "none"
    /\ largest_connected_component = 0
    /\ history = <<>>
    /\ ops = 0
    /\ osm_ways \in UNION {[1 .. n -> OsmWays] : n \in 0 .. MaxWays}
    /\ ways = <<>>
    /\ nodes_hashmap \in UNION {[S -> Locations] : S \in SUBSET BuildIds}
    /\ way_i = 0
    /\ previous_head = <<>>

NextBuild ==
    \/ OpenFile
    \/ ReadFails
    \/ ReadWay
    \/ StartWalk
    \/ WalkSegment
    \/ FinishBuild

SpecBuild == InitBuild /\ [][NextBuild]_vars

(***************************************************************************)
(* SpecBuildPrune: the test bast_baden_wuerttemberg from its start: the    *)
(* graph is read, the engine is made on it with every label 0, and then    *)
(* prunes and searches for all distances follow, MaxCalls of them at most. *)
(***************************************************************************)
\* lines 572-589: the labels start at 0 and the engine is made on the graph
\* read_from_osm_file returned
Construct ==
    /\ pc = "built"
    /\ visited_node_marks' = initial_visited_node_marks(graph)
    /\ pc' = "idle"
    /\ UNCHANGED <<graph, number_of_completed_rounds, heuristic, overflow_checks,
                   caller, search_vars, landmark_vars, h_target, find_vars,
                   history, ops, build_vars>>

NextBuildPrune ==
    \/ OpenFile
    \/ ReadFails
    \/ ReadWay
    \/ StartWalk
    \/ WalkSegment
    \/ FinishBuild
    \/ Construct
    \/ ops < MaxCalls /\ Reduce
    \/ FindNext
    \/ ReturnToFind
    \/ ReduceFinish
    \/ ops < MaxCalls /\ \E n \in graph.nodes : Query(n, NoTarget)
    \/ PopMin
    \/ ReturnToQuery

SpecBuildPrune == InitBuild /\ [][NextBuildPrune]_vars

(***************************************************************************)
(* What the claims speak of: shortest-path cost as a mathematical quantity *)
(* (unbounded integers, -1 for "no path"), independent of the search.      *)
(***************************************************************************)
Min(S) == CHOOSE x \in S : \A y \in S : x <= y

\* one round of relaxing every edge of g, on d: node -> cost or -1
relax_round(g, d) ==
    [v \in DOMAIN d |->
        LET via == {d[x] + g.edges[x][v] :
                      x \in {y \in DOMAIN g.edges :
                               y \in DOMAIN d /\ d[y] >= 0 /\ v \in DOMAIN g.edges[y]}}
            all == via \cup (IF d[v] >= 0 THEN {d[v]} ELSE {})
        IN IF all = {} THEN -1 ELSE Min(all)]

\* relaxing until nothing changes (costs are not negative: this ends)
RECURSIVE relax_to_fixpoint(_, _)
relax_to_fixpoint(g, d) ==
    LET next == relax_round(g, d)
    IN IF next = d THEN d ELSE relax_to_fixpoint(g, next)

\* path_costs(g, s)[v]: the minimum total edge cost over all paths of g from
\* s to v, or -1 when there is none
path_costs(g, s) ==
    relax_to_fixpoint(g, [v \in g.nodes \cup {s} |-> IF v = s THEN 0 ELSE -1])

\* the nodes of g reachable from s
reachable_from(g, s) ==
    LET d == path_costs(g, s)
    IN {v \in DOMAIN d : d[v] >= 0}

\* the dist_map a search from s must return: exactly the reachable nodes, each
\* with its minimum path cost
exact_dist_map(g, s) ==
    LET d == path_costs(g, s)
    IN [v \in {x \in DOMAIN d : d[x] >= 0} |-> Some(d[v])]

\* every minimum path cost from s is a u32 value
representable(g, s) ==
    LET d == path_costs(g, s)
    IN \A v \in DOMAIN d : d[v] <= U32Max

\* C2: a finished query without heuristic, on a graph whose minimum path costs
\* from the source are u32 values, returned the exact dist_map, and as cost its
\* entry for the target (Infinity when the target is not in it)
C2_PlainSearchIsExact ==
    \A i \in 1 .. Len(history) :
        ( /\ history[i].op = "query"
          /\ history[i].heuristic = <<>>
          /\ representable(graph, history[i].source) ) =>
            /\ history[i].dist_map = exact_dist_map(graph, history[i].source)
            /\ history[i].cost =
                   get_or_infinity(exact_dist_map(graph, history[i].source),
                                   history[i].target)

\* the finished queries of the history
queries == {i \in 1 .. Len(history) : history[i].op = "query"}

\* C1: a query answered with the landmark heuristic for its target attached
\* returns the finite cost the same query returned without heuristic
C1_AltCostEqualsPlainCost ==
    \A i, j \in queries :
        ( /\ history[i].heuristic = <<>>
          /\ history[j].heuristic # <<>>
          /\ history[j].h_target = history[j].target
          /\ history[i].source = history[j].source
          /\ history[i].target = history[j].target
          /\ IsSome(history[i].cost) )
        => history[j].cost = history[i].cost

\* the heuristic table is attached and was derived for the node h_target
table_attached == pc = "idle" /\ heuristic # <<>> /\ h_target \in graph.nodes

\* C6: the attached landmark table never exceeds the path cost to its target,
\* and is 0 at the target
C6_HeuristicAdmissible ==
    table_attached =>
        /\ heuristic[1][h_target] = Some(0)
        /\ \A u \in graph.nodes :
             LET d == path_costs(graph, u)[h_target]
             IN d >= 0 => cmp(heuristic[1][u], Some(d)) # "Greater"

\* the derivation was called, with at least one landmark table, for a node
transform_called ==
    /\ history # <<>>
    /\ history[Len(history)].op = "transform"
    /\ history[Len(history)].target \in graph.nodes
    /\ DOMAIN landmark_database[1] # {}

\* C7: the derivation completes and gives every node a finite value, whatever
\* the landmarks reach
C7_TransformCompletes ==
    transform_called =>
        /\ pc # "panicked"
        /\ heuristic # <<>>
        /\ \A u \in graph.nodes :
             u \in DOMAIN heuristic[1] /\ IsSome(heuristic[1][u])

\* C6: a table is attached that is positive at a node with a path to the target
C6_Witness ==
    /\ table_attached
    /\ \E u \in graph.nodes :
         /\ path_costs(graph, u)[h_target] > 0
         /\ lt(Some(0), heuristic[1][u])

\* C9: a query from s to s returns cost 0 and a dist_map with s at 0
C9_SourceToItselfIsZero ==
    \A i \in queries :
        (history[i].target = history[i].source) =>
            /\ history[i].cost = Some(0)
            /\ history[i].source \in DOMAIN history[i].dist_map
            /\ history[i].dist_map[history[i].source] = Some(0)

\* the finished prunes of the history
reduces == {i \in 1 .. Len(history) : history[i].op = "reduce"}

\* C3: after the prune of a fresh engine, a search for all distances from a
\* node that is left gives every node that is left a finite distance
C3_PrunedGraphIsConnected ==
    \A i \in queries :
        (i = 2 /\ history[1].op = "reduce" /\ history[i].target = NoTarget) =>
            \A n \in graph.nodes :
                n \in DOMAIN history[i].dist_map /\ IsSome(history[i].dist_map[n])

\* C3: a prune took nodes away, left more than one, and the search was made
C3_Witness ==
    /\ Len(history) = 2
    /\ history[1].op = "reduce"
    /\ history[2].op = "query"
    /\ history[2].target = NoTarget
    /\ history[1].before.nodes # graph.nodes
    /\ Cardinality(graph.nodes) > 1

\* C4: the second prune in a row leaves the graph the first one left
C4_PruneTwiceIsPruneOnce ==
    \A i, j \in reduces : (j = i + 1) => history[j].graph = history[i].graph

\* C5: every addition the search loop is about to make saturates: it does not
\* abort, it gives Infinity when the sum leaves the u32 range, and it is not
\* below the distance it adds the edge cost to
C5_AdditionSaturates ==
    /\ pc = "loop" =>
         \A u \in DOMAIN pq :
            (is_min(u) /\ u \in DOMAIN graph.edges) =>
                \A v \in DOMAIN graph.edges[u] :
                    LET u_dist == get_or_infinity(distances, u)
                        w == Some(graph.edges[u][v])
                    IN /\ add_overflows(u_dist, w) =>
                            ~overflow_checks /\ add(u_dist, w) = Infinity
                       /\ ~lt(add(u_dist, w), u_dist)

\* C8: the graph read_from_osm_file returns has no self-loop
C8_NoSelfLoop ==
    pc = "built" => \A u \in DOMAIN graph.edges : u \notin DOMAIN graph.edges[u]

\* the scenario of C10: G4, the landmarks A and E, a query from A to E that
\* runs without heuristic (alt = FALSE) or with the table for E (alt = TRUE)
g4_query(alt) ==
    /\ graph = G4
    /\ landmark_database # <<>>
    /\ DOMAIN landmark_database[1] = {1, 5}
    /\ caller = "query"
    /\ source = 1
    /\ target = 5
    /\ IF alt THEN heuristic # <<>> /\ h_target = 5 ELSE heuristic = <<>>

\* that query has returned
g4_answered(alt) ==
    g4_query(alt) /\ pc = "idle" /\ history[Len(history)].op = "query"

\* C10 as claimed: the query without heuristic gives F (node 6) a distance,
\* the query with the table for E never gives F one
C10_AltNeverRelaxesSpur ==
    /\ g4_answered(FALSE) => 6 \in DOMAIN distances
    /\ (g4_query(TRUE) /\ pc = "loop") => 6 \notin DOMAIN distances
    /\ g4_answered(TRUE) => 6 \notin DOMAIN distances

\* C10 as amended: in both queries F gets a distance (it is in the dist_map) and
\* the distance F once has is never replaced: F is assigned exactly once
C10_BothRelaxSpurOnce ==
    /\ [](\A alt \in BOOLEAN : g4_answered(alt) => 6 \in DOMAIN distances)
    /\ [][\A alt \in BOOLEAN :
            (g4_query(alt) /\ pc = "loop" /\ 6 \in DOMAIN distances)
                => (6 \in DOMAIN distances' /\ distances'[6] = distances[6])]_vars

\* C10: the query with the table for E has returned
C10_Witness == g4_answered(TRUE) /\ 6 \in DOMAIN distances

\* dist_map is closed under relaxation on g: a neighbour of a node with a
\* finite distance has a distance that is at most that distance plus the cost
relaxation_closed(g, dist_map) ==
    \A u \in DOMAIN dist_map :
        (IsSome(dist_map[u]) /\ u \in DOMAIN g.edges) =>
            \A v \in DOMAIN g.edges[u] :
                /\ v \in DOMAIN dist_map
                /\ IsSome(dist_map[v])
                /\ dist_map[v][1] <= dist_map[u][1] + g.edges[u][v]

\* C11: the dist_map of a finished search for all distances has the source at
\* 0 and is closed under relaxation
C11_AllDistancesClosed ==
    \A i \in queries :
        (history[i].target = NoTarget) =>
            /\ history[i].source \in DOMAIN history[i].dist_map
            /\ history[i].dist_map[history[i].source] = Some(0)
            /\ relaxation_closed(graph, history[i].dist_map)

\* the undirected edges of g: the sets {u, v} with v a neighbour of u
undirected_edges(g) ==
    UNION {{{u, v} : v \in DOMAIN g.edges[u]} : u \in DOMAIN g.edges}

\* the first call on the engine was a prune, and it returned
pruned_fresh == history # <<>> /\ history[1].op = "reduce"

\* C12: the prune of a fresh engine leaves the nodes of one connected component
\* of the graph before, none of the graph's components is larger, and the edges
\* left are the edges the graph before had among these nodes; of two disjoint
\* triangles it leaves three nodes and three undirected edges
C12_PruneKeepsALargestComponent ==
    pruned_fresh =>
        LET before == history[1].before
            after == history[1].graph
        IN /\ \E n \in before.nodes : after.nodes = reachable_from(before, n)
           /\ \A m \in before.nodes :
                Cardinality(reachable_from(before, m)) <= Cardinality(after.nodes)
           /\ DOMAIN after.edges = after.nodes \cap DOMAIN before.edges
           /\ \A u \in DOMAIN after.edges : after.edges[u] = before.edges[u]
           /\ before = G2 =>
                /\ Cardinality(after.nodes) = 3
                /\ Cardinality(undirected_edges(after)) = 3

\* C12: the two triangles were pruned
C12_Witness == pruned_fresh /\ history[1].before = G2 /\ Len(history) = 1

\* a query was aborted inside its main loop (the queue still holds nodes)
query_failed == pc = "panicked" /\ caller = "query" /\ DOMAIN pq # {}

\* C13: a query for a target that the source has no path to (a node of
\* another component, -1, an id that is no node) does not fail and returns
\* Infinity; a query returns a finite cost only for a target it has a path to
C13_UnreachableIsInfinity ==
    /\ \A i \in queries :
         history[i].target \notin reachable_from(graph, history[i].source)
            <=> history[i].cost = Infinity
    /\ (caller = "query" /\ target \notin reachable_from(graph, source))
            => ~query_failed

\* C14: the attached landmark table is consistent: along every edge it grows
\* by at most the edge's cost
C14_HeuristicConsistent ==
    table_attached =>
        \A u \in DOMAIN graph.edges :
            \A v \in DOMAIN graph.edges[u] :
                heuristic[1][u][1] <= heuristic[1][v][1] + graph.edges[u][v]

\* C14: a table is attached that grows along an edge by exactly its cost
C14_Witness ==
    /\ table_attached
    /\ \E u \in DOMAIN graph.edges :
         \E v \in DOMAIN graph.edges[u] :
            /\ graph.edges[u][v] > 0
            /\ heuristic[1][u][1] = heuristic[1][v][1] + graph.edges[u][v]

\* the graph is whole: read_from_osm_file returned it, or the engine that
\* was made on it is between two calls
graph_at_rest == pc \in {"built", "idle"}

\* C15: in the graph that was read, and in what the prunes leave of it, the
\* nodes are the keys of edges and every neighbour is a node
C15_EdgesStayInsideNodes ==
    graph_at_rest =>
        /\ graph.nodes = DOMAIN graph.edges
        /\ \A u \in DOMAIN graph.edges : DOMAIN graph.edges[u] \subseteq graph.nodes

\* C15: a prune of the graph that was read took a node away and left one
C15_Witness ==
    /\ pc = "idle"
    /\ history # <<>>
    /\ history[Len(history)].op = "reduce"
    /\ history[Len(history)].before.nodes # graph.nodes
    /\ graph.nodes # {}

\* C16: at every moment of the reading of the graph and of the prunes and
\* searches after it, v is a neighbour of u exactly when u is one of v, at
\* the same cost
C16_EdgesSymmetric ==
    \A u \in DOMAIN graph.edges :
        \A v \in DOMAIN graph.edges[u] :
            /\ v \in DOMAIN graph.edges
            /\ u \in DOMAIN graph.edges[v]
            /\ graph.edges[v][u] = graph.edges[u][v]

\* C16: a graph with an edge between two nodes was read, pruned and searched
C16_Witness ==
    /\ pc = "idle"
    /\ \E i, j \in 1 .. Len(history) :
         history[i].op = "reduce" /\ history[j].op = "query"
    /\ \E u \in DOMAIN graph.edges :
         \E v \in DOMAIN graph.edges[u] : u # v /\ graph.edges[u][v] > 0

\* the file could not be opened, or an object of it could not be read
io_failed ==
    /\ history # <<>>
    /\ history[Len(history)].op \in {"open", "read"}
    /\ ~history[Len(history)].ok

\* C17: when the file cannot be opened or read, read_from_osm_file does not
\* abort: it returns the error to its caller, and no graph
C17_IoFailureIsReturned ==
    io_failed => pc = "io_error" /\ graph.nodes = {}

\* the cost the specification gives a segment: the distance over the speed in
\* m/s, rounded down; the speed in m/s is 5/18 of the speed in km/h
cost_of(distance_metres, kmh) == (distance_metres * 18) \div (kmh * 5)

\* C18: a segment that the walk writes into the graph gets the distance of its
\* two nodes over its way's speed in m/s (the km/h of the table times 5/18,
\* once), rounded down: 36 for 50 m of a service way
C18_CostIsDistanceOverSpeed ==
    [][(pc = "walk" /\ ways # <<>>) =>
        LET way == Head(ways)
            tail == tail_location(way, way_i)
            head == head_location(way, way_i)
            tail_id == way.node_sequence[way_i + 1]
            head_id == way.node_sequence[way_i + 2]
            kmh == way.highway_speed_m_per_s_x18 \div 5
        IN (tail # <<>> /\ head # <<>>) =>
              LET distance_metres == haversine_distance_to(tail[1], head[1])
              IN /\ graph'.edges[tail_id][head_id] = cost_of(distance_metres, kmh)
                 /\ (kmh = 5 /\ distance_metres = 50) =>
                        graph'.edges[tail_id][head_id] = 36]_vars

\* the finished queries in the order they were made: the k-th was round k
\* of the engine
query_rounds == SelectSeq(history, LAMBDA e : e.op = "query")

\* the rounds whose search reached n (gave it a finite distance)
rounds_reaching(n) ==
    {k \in 1 .. Len(query_rounds) :
        n \in DOMAIN query_rounds[k].dist_map /\ IsSome(query_rounds[k].dist_map[n])}

Max(S) == CHOOSE x \in S : \A y \in S : x >= y

\* C19 as claimed: between two calls, a node's label is 0 when no search has
\* reached it, and otherwise the number of the first round that reached it
C19_LabelIsFirstRound ==
    pc = "idle" =>
        \A n \in DOMAIN visited_node_marks :
            visited_node_marks[n] =
                IF rounds_reaching(n) = {} THEN 0 ELSE Min(rounds_reaching(n))

\* C19 as amended: between two calls, a node's label is 0 when no search has
\* reached it, and otherwise the number of the last round that reached it
C19_LabelIsLastRound ==
    pc = "idle" =>
        \A n \in DOMAIN visited_node_marks :
            visited_node_marks[n] =
                IF rounds_reaching(n) = {} THEN 0 ELSE Max(rounds_reaching(n))

\* C19: two searches were made and a node that both reached has the label 2
C19_Witness ==
    /\ pc = "idle"
    /\ Len(query_rounds) = 2
    /\ \E n \in DOMAIN visited_node_marks :
         rounds_reaching(n) = {1, 2} /\ visited_node_marks[n] = 2

\* the round r has labelled strictly more than half of the graph's nodes
labelled_majority(r) ==
    2 * nodes_marked(visited_node_marks, r) > Cardinality(graph.nodes)

\* C20: find_largest_connected_component goes on to another round only when
\* no round has labelled more than half of the nodes, and it leaves its loop
\* with nodes still at label 0 only when the last round has
C20_StopsAtMajority ==
    /\ (pc = "find_loop" /\ unmarked # {}) =>
          \A r \in 1 .. number_of_completed_rounds : ~labelled_majority(r)
    /\ (pc = "find_rank" /\ unmarked # {}) =>
          labelled_majority(number_of_completed_rounds)

\* the nodes the running search has extracted from its queue: every node
\* with a distance was pushed when it got the distance
extracted == (DOMAIN distances) \ (DOMAIN pq)

\* C21: in a turn of the main loop one node leaves the queue, no node that
\* had left the queue is pushed again, and the distance of a node that is
\* not in the queue after the turn is the one it had before the turn
C21_ExtractedOnceAndFinal ==
    [][(pc = "loop" /\ pc' = "loop" /\ pq' # pq) =>
          /\ (DOMAIN pq) \ (DOMAIN pq') # {}
          /\ extracted \cap (DOMAIN pq') = {}
          /\ \A n \in (DOMAIN distances) \ (DOMAIN pq') :
                distances'[n] = distances[n]]_vars

\* C22: a search that has entered its main loop reaches the end of the
\* loop: the priority queue becomes empty
C22_SearchTerminates == (pc = "loop") ~> loop_ended

\* a search that has entered its main loop leaves it: the queue becomes
\* empty or an addition panics
C22_SearchEndsOrPanics == (pc = "loop") ~> (loop_ended \/ pc = "panicked")

\* in a turn of the main loop, a node that is in the queue afterwards with a
\* priority it did not have before has a distance strictly below the one it
\* had before
C22_PushLowersDistance ==
    [][(pc = "loop" /\ pc' = "loop" /\ pq' # pq) =>
          \A n \in DOMAIN pq' :
             (n \notin DOMAIN pq \/ pq'[n] # pq[n]) =>
                lt(distances'[n], get_or_infinity(distances, n))]_vars

\* find_largest_connected_component has returned to the first call made on
\* the engine, a prune, and no other call has begun: the labels and the
\* returned round are the ones of the return; the labels were all 0 when the
\* prune began
find_returned_fresh ==
    /\ Len(history) = 1
    /\ history[1].op = "reduce"
    /\ ops = 1
    /\ pc = "idle"

\* a round of the first call on the engine begins with this step
round_starts == pc = "find_loop" /\ pc' = "loop" /\ history = <<>>

\* the returned round is a positive label, and no label, 0 included, is
\* carried by more nodes
returned_round_is_largest ==
    /\ largest_connected_component > 0
    /\ \A r \in 0 .. number_of_completed_rounds :
          nodes_marked(visited_node_marks, r)
              <= nodes_marked(visited_node_marks, largest_connected_component)

\* C23: when find_largest_connected_component returns on an engine whose
\* labels were all 0, two nodes carry the same positive label exactly when
\* they lie in the same connected component, the returned round is a positive
\* label that no label is carried by more nodes than, and every round started
\* from a node whose label was 0
C23_PositiveLabelsAreComponents ==
    /\ [](find_returned_fresh =>
            /\ \A u, v \in history[1].before.nodes :
                  (visited_node_marks[u] = visited_node_marks[v]
                        /\ visited_node_marks[u] > 0)
                     <=> v \in reachable_from(history[1].before, u)
            /\ returned_round_is_largest)
    /\ [][round_starts => visited_node_marks[source'] = 0]_vars

\* C23, with the nodes that the early exit leaves at 0: when
\* find_largest_connected_component returns on an engine whose labels were
\* all 0, two nodes of the same connected component carry the same label, two
\* nodes that carry the same positive label lie in the same component (a
\* label of 0 is carried by the components no round has searched), the
\* returned round is a positive label that no label is carried by more nodes
\* than, and every round started from a node whose label was 0
C23_LabelsFollowComponents ==
    /\ [](find_returned_fresh =>
            /\ \A u, v \in history[1].before.nodes :
                  /\ v \in reachable_from(history[1].before, u)
                        => visited_node_marks[u] = visited_node_marks[v]
                  /\ (visited_node_marks[u] = visited_node_marks[v]
                        /\ visited_node_marks[u] > 0)
                        => v \in reachable_from(history[1].before, u)
            /\ returned_round_is_largest)
    /\ [][round_starts => visited_node_marks[source'] = 0]_vars

\* C23: the search returned after one round that labelled more than half of
\* the nodes, and another component is still at 0
C23_Witness ==
    /\ find_returned_fresh
    /\ largest_connected_component = 1
    /\ labelled_majority(1)
    /\ \E n \in history[1].before.nodes : visited_node_marks[n] = 0

====
